---- MODULE Spec2Model ----
(***************************************************************************)
(* SinglyLinkedList of src/1list.py as a state machine over a node heap.   *)
(* A node is an identity in Nodes; its two fields are the functions nxt    *)
(* and val.  The list object is the triple head, tail, size.  Every method *)
(* is an operator from a list record to a result record (the new list, the *)
(* exception raised if any, the value returned), written statement by      *)
(* statement from the method's body; every action applies one method.      *)
(***************************************************************************)
EXTENDS Integers, Sequences, FiniteSets, TLC

\* Bounds of the model.
MaxNodes == 3
MaxVal == 2
MaxSrc == 2

\* Python's None, as a node reference and as "no value".
None == 0
Nodes == 1..MaxNodes
Val == 1..MaxVal

VARIABLES head, tail, size, nxt, val, pc, it, op, arg, ret, pre, post, fl

vars == <<head, tail, size, nxt, val, pc, it, op, arg, ret, pre, post, fl>>

\* The list object and its nodes, as one record.
Cur == [head |-> head, tail |-> tail, size |-> size, nxt |-> nxt, val |-> val]

\* __init__, lines 30-32: no node, head and tail None, _size 0.
Empty ==
  [head |-> None, tail |-> None, size |-> 0,
   nxt |-> [n \in Nodes |-> None], val |-> [n \in Nodes |-> None]]

\* What a call produces: the list after it, the exception ("none" when it
\* returns), the returned value (None when there is none) and the returned
\* boolean of the methods that return one.
R(L, err, v, b) == [L |-> L, err |-> err, val |-> v, flag |-> b]

\* The nodes from cur on in link order, after those of acc; the walk stops
\* at None or at a node already met.
RECURSIVE Chain(_, _, _)
Chain(nx, cur, acc) ==
  IF cur = None \/ (\E i \in 1..Len(acc) : acc[i] = cur) THEN acc
  ELSE Chain(nx, nx[cur], Append(acc, cur))

\* The nodes in use: those a reference of the list object (head, tail)
\* reaches, in link order from head, then from tail.
Order(L) == Chain(L.nxt, L.tail, Chain(L.nxt, L.head, <<>>))

Live(L) == {Order(L)[i] : i \in 1..Len(Order(L))}

\* Node(value=..., next=...): the new node is one not in use; it takes the
\* least free identity.
NewNode(L) ==
  CHOOSE n \in Nodes \ Live(L) : \A m \in Nodes \ Live(L) : n <= m

HasRoom(L) == Nodes \ Live(L) # {}

\* A node's identity is an address the program never reads as a number, and
\* a node no reference reaches is reclaimed.  Between calls the nodes in use
\* are renamed 1, 2, ... in the order of Order, and the others are blank.
Normalize(L) ==
  LET o == Order(L)
      ren(n) == IF n = None THEN None ELSE CHOOSE i \in 1..Len(o) : o[i] = n
  IN  [head |-> ren(L.head), tail |-> ren(L.tail), size |-> L.size,
       nxt |-> [i \in Nodes |-> IF i <= Len(o) THEN ren(L.nxt[o[i]]) ELSE None],
       val |-> [i \in Nodes |-> IF i <= Len(o) THEN L.val[o[i]] ELSE None]]

\* __iter__: the values from cur on, following next until None.
RECURSIVE IterFrom(_, _, _)
IterFrom(nx, vl, cur) ==
  IF cur = None THEN <<>> ELSE <<vl[cur]>> \o IterFrom(nx, vl, nx[cur])

\* to_list: list(iter(self)).
to_list(L) == IterFrom(L.nxt, L.val, L.head)

\* Mutant of check_index: the lower bound is not checked.
check_index_no_lower(L, isint, index, allow_end) ==
  LET max_ok == IF allow_end THEN L.size ELSE L.size - 1 IN
  IF ~isint THEN "TypeError"
  ELSE IF index > max_ok THEN "IndexError"
  ELSE "none"

\* _check_index: the exception it raises, "none" when the index passes.
check_index(L, isint, index, allow_end) ==
  LET max_ok == IF allow_end THEN L.size ELSE L.size - 1 IN
  IF ~isint THEN "TypeError"
  ELSE IF index < 0 \/ index > max_ok THEN "IndexError"
  ELSE "none"

\* for _ in range(k): assert cur is not None; cur = cur.next
RECURSIVE Walk(_, _, _)
Walk(nx, cur, k) ==
  IF k <= 0 THEN [err |-> "none", node |-> cur]
  ELSE IF cur = None THEN [err |-> "AssertionError", node |-> None]
  ELSE Walk(nx, nx[cur], k - 1)

\* _node_at: the node at index, or the exception raised.
node_at(L, isint, index) ==
  LET e == check_index(L, isint, index, FALSE)
      w == Walk(L.nxt, L.head, index)
  IN  IF e # "none" THEN [err |-> e, node |-> None]
      ELSE IF w.err # "none" \/ w.node = None
      THEN [err |-> "AssertionError", node |-> None]
      ELSE w

\* clear
clear(L) ==
  R([L EXCEPT !.head = None, !.tail = None, !.size = 0], "none", None, FALSE)

\* prepend
prepend(L, value) ==
  LET n == NewNode(L)
      L1 == [L EXCEPT !.nxt[n] = L.head, !.val[n] = value, !.head = n]
      L2 == IF L.size = 0 THEN [L1 EXCEPT !.tail = n] ELSE L1
  IN  R([L2 EXCEPT !.size = L.size + 1], "none", None, FALSE)

\* append
append(L, value) ==
  LET n == NewNode(L)
      L1 == [L EXCEPT !.nxt[n] = None, !.val[n] = value]
  IN  IF L.size = 0
      THEN R([L1 EXCEPT !.head = n, !.tail = n, !.size = L.size + 1],
             "none", None, FALSE)
      ELSE IF L.tail = None THEN R(L, "AssertionError", None, FALSE)
      ELSE R([L1 EXCEPT !.nxt[L.tail] = n, !.tail = n, !.size = L.size + 1],
             "none", None, FALSE)

\* Mutant of insert: the new node is linked after the node at index.
insert_after_index(L, isint, index, value) ==
  LET e == check_index(L, isint, index, TRUE) IN
  IF e # "none" THEN R(L, e, None, FALSE)
  ELSE IF index = 0 THEN prepend(L, value)
  ELSE IF index = L.size THEN append(L, value)
  ELSE LET p == node_at(L, TRUE, index) IN
       IF p.err # "none" THEN R(L, p.err, None, FALSE)
       ELSE LET n == NewNode(L) IN
            R([L EXCEPT !.nxt[n] = L.nxt[p.node], !.val[n] = value,
                        !.nxt[p.node] = n, !.size = L.size + 1],
              "none", None, FALSE)

\* insert
insert(L, isint, index, value) ==
  LET e == check_index(L, isint, index, TRUE) IN
  IF e # "none" THEN R(L, e, None, FALSE)
  ELSE IF index = 0 THEN prepend(L, value)
  ELSE IF index = L.size THEN append(L, value)
  ELSE LET p == node_at(L, TRUE, index - 1) IN
       IF p.err # "none" THEN R(L, p.err, None, FALSE)
       ELSE LET n == NewNode(L) IN
            R([L EXCEPT !.nxt[n] = L.nxt[p.node], !.val[n] = value,
                        !.nxt[p.node] = n, !.size = L.size + 1],
              "none", None, FALSE)

\* get
get(L, isint, index) ==
  LET p == node_at(L, isint, index) IN
  IF p.err # "none" THEN R(L, p.err, None, FALSE)
  ELSE R(L, "none", L.val[p.node], FALSE)

\* set
set(L, isint, index, value) ==
  LET p == node_at(L, isint, index) IN
  IF p.err # "none" THEN R(L, p.err, None, FALSE)
  ELSE R([L EXCEPT !.val[p.node] = value], "none", None, FALSE)

\* Mutant of pop_left: tail is not reset when the list becomes empty.
pop_left_keeps_tail(L) ==
  IF L.size = 0 THEN R(L, "IndexError", None, FALSE)
  ELSE IF L.head = None THEN R(L, "AssertionError", None, FALSE)
  ELSE R([L EXCEPT !.head = L.nxt[L.head], !.size = L.size - 1],
         "none", L.val[L.head], FALSE)

\* pop_left
pop_left(L) ==
  IF L.size = 0 THEN R(L, "IndexError", None, FALSE)
  ELSE IF L.head = None THEN R(L, "AssertionError", None, FALSE)
  ELSE LET v == L.val[L.head]
           L1 == [L EXCEPT !.head = L.nxt[L.head], !.size = L.size - 1]
           L2 == IF L1.size = 0 THEN [L1 EXCEPT !.tail = None] ELSE L1
       IN  R(L2, "none", v, FALSE)

\* pop
pop(L) ==
  IF L.size = 0 THEN R(L, "IndexError", None, FALSE)
  ELSE IF L.size = 1 THEN pop_left(L)
  ELSE LET p == node_at(L, TRUE, L.size - 2) IN
       IF p.err # "none" THEN R(L, p.err, None, FALSE)
       ELSE IF L.tail = None THEN R(L, "AssertionError", None, FALSE)
       ELSE R([L EXCEPT !.nxt[p.node] = None, !.tail = p.node,
                        !.size = L.size - 1],
              "none", L.val[L.tail], FALSE)

\* Mutant of remove_at: tail is not moved when the last node goes.
remove_at_keeps_tail(L, isint, index) ==
  LET e == check_index(L, isint, index, FALSE) IN
  IF e # "none" THEN R(L, e, None, FALSE)
  ELSE IF index = 0 THEN pop_left(L)
  ELSE LET p == node_at(L, TRUE, index - 1) IN
       IF p.err # "none" THEN R(L, p.err, None, FALSE)
       ELSE IF L.nxt[p.node] = None THEN R(L, "AssertionError", None, FALSE)
       ELSE LET target == L.nxt[p.node] IN
            R([L EXCEPT !.nxt[p.node] = L.nxt[target], !.size = L.size - 1],
              "none", L.val[target], FALSE)

\* remove_at
remove_at(L, isint, index) ==
  LET e == check_index(L, isint, index, FALSE) IN
  IF e # "none" THEN R(L, e, None, FALSE)
  ELSE IF index = 0 THEN pop_left(L)
  ELSE LET p == node_at(L, TRUE, index - 1) IN
       IF p.err # "none" THEN R(L, p.err, None, FALSE)
       ELSE IF L.nxt[p.node] = None THEN R(L, "AssertionError", None, FALSE)
       ELSE LET target == L.nxt[p.node]
                L1 == [L EXCEPT !.nxt[p.node] = L.nxt[target],
                                !.size = L.size - 1]
                L2 == IF index = L1.size THEN [L1 EXCEPT !.tail = p.node]
                      ELSE L1
            IN  R(L2, "none", L.val[target], FALSE)

\* remove, lines 232-243: the walk with prev and cur.
RECURSIVE remove_loop(_, _, _, _)
remove_loop(L, prev, cur, value) ==
  IF cur = None THEN R(L, "none", None, FALSE)
  ELSE IF L.val[cur] = value
  THEN LET L1 == [L EXCEPT !.nxt[prev] = L.nxt[cur], !.size = L.size - 1]
           L2 == IF cur = L.tail THEN [L1 EXCEPT !.tail = prev] ELSE L1
       IN  R(L2, "none", None, TRUE)
  ELSE remove_loop(L, cur, L.nxt[cur], value)

\* remove
remove(L, value) ==
  IF L.size = 0 THEN R(L, "none", None, FALSE)
  ELSE IF L.head = None THEN R(L, "AssertionError", None, FALSE)
  ELSE IF L.val[L.head] = value
  THEN LET r == pop_left(L) IN R(r.L, r.err, None, r.err = "none")
  ELSE remove_loop(L, L.head, L.nxt[L.head], value)

\* reverse, lines 252-256: the loop; yields the links and the final prev.
RECURSIVE reverse_loop(_, _, _)
reverse_loop(nx, prev, cur) ==
  IF cur = None THEN [nxt |-> nx, prev |-> prev]
  ELSE reverse_loop([nx EXCEPT ![cur] = prev], cur, nx[cur])

\* Mutant of reverse: prev starts at head instead of None.
reverse_prev_head(L) ==
  LET L1 == [L EXCEPT !.tail = L.head]
      w == reverse_loop(L1.nxt, L1.head, L1.head)
  IN  R([L1 EXCEPT !.nxt = w.nxt, !.head = w.prev], "none", None, FALSE)

\* Mutant of reverse: the tail reference is left where it was.
reverse_keeps_tail(L) ==
  LET w == reverse_loop(L.nxt, None, L.head)
  IN  R([L EXCEPT !.nxt = w.nxt, !.head = w.prev], "none", None, FALSE)

\* reverse
reverse(L) ==
  LET L1 == [L EXCEPT !.tail = L.head]
      w == reverse_loop(L1.nxt, None, L1.head)
  IN  R([L1 EXCEPT !.nxt = w.nxt, !.head = w.prev], "none", None, FALSE)

\* nth_from_end, lines 286-289: lead and follow advance together.
RECURSIVE follow_loop(_, _, _)
follow_loop(nx, lead, follow) ==
  IF lead = None THEN [err |-> "none", node |-> follow]
  ELSE IF follow = None THEN [err |-> "AssertionError", node |-> None]
  ELSE follow_loop(nx, nx[lead], nx[follow])

\* Mutant of nth_from_end: lead is advanced n - 1 times.
nth_from_end_short_lead(L, n) ==
  IF n <= 0 THEN R(L, "ValueError", None, FALSE)
  ELSE IF n > L.size THEN R(L, "IndexError", None, FALSE)
  ELSE LET lead == Walk(L.nxt, L.head, n - 1) IN
       IF lead.err # "none" THEN R(L, lead.err, None, FALSE)
       ELSE LET f == follow_loop(L.nxt, lead.node, L.head) IN
            IF f.err # "none" \/ f.node = None
            THEN R(L, "AssertionError", None, FALSE)
            ELSE R(L, "none", L.val[f.node], FALSE)

\* nth_from_end
nth_from_end(L, n) ==
  IF n <= 0 THEN R(L, "ValueError", None, FALSE)
  ELSE IF n > L.size THEN R(L, "IndexError", None, FALSE)
  ELSE LET lead == Walk(L.nxt, L.head, n) IN
       IF lead.err # "none" THEN R(L, lead.err, None, FALSE)
       ELSE LET f == follow_loop(L.nxt, lead.node, L.head) IN
            IF f.err # "none" \/ f.node = None
            THEN R(L, "AssertionError", None, FALSE)
            ELSE R(L, "none", L.val[f.node], FALSE)

\* Mutant of the loop of remove_duplicates: tail is not moved when the
\* removed node is the tail.
RECURSIVE dedup_loop_keeps_tail(_, _, _, _)
dedup_loop_keeps_tail(L, seen, prev, cur) ==
  IF cur = None THEN R(L, "none", None, FALSE)
  ELSE IF L.val[cur] \in seen
  THEN IF prev = None THEN R(L, "AssertionError", None, FALSE)
       ELSE LET L1 == [L EXCEPT !.nxt[prev] = L.nxt[cur],
                                !.size = L.size - 1]
            IN  dedup_loop_keeps_tail(L1, seen, prev, L1.nxt[prev])
  ELSE dedup_loop_keeps_tail(L, seen \cup {L.val[cur]}, cur, L.nxt[cur])

\* remove_duplicates, lines 302-313: the loop over cur with the seen set.
RECURSIVE dedup_loop(_, _, _, _)
dedup_loop(L, seen, prev, cur) ==
  IF cur = None THEN R(L, "none", None, FALSE)
  ELSE IF L.val[cur] \in seen
  THEN IF prev = None THEN R(L, "AssertionError", None, FALSE)
       ELSE LET L1 == [L EXCEPT !.nxt[prev] = L.nxt[cur],
                                !.size = L.size - 1]
                L2 == IF cur = L.tail THEN [L1 EXCEPT !.tail = prev] ELSE L1
            IN  dedup_loop(L2, seen, prev, L2.nxt[prev])
  ELSE dedup_loop(L, seen \cup {L.val[cur]}, cur, L.nxt[cur])

\* remove_duplicates
remove_duplicates(L) == dedup_loop(L, {}, None, L.head)

\* Mutant of the slow/fast step: fast moves one link, like slow.
floyd_step_fast_by_one(nx, slow, fast) ==
  IF fast = None \/ nx[fast] = None
  THEN [state |-> "exit", slow |-> slow, fast |-> fast]
  ELSE LET s == nx[slow]
           f == nx[fast]
       IN  [state |-> IF s = f THEN "met" ELSE "go", slow |-> s, fast |-> f]

\* One iteration of the slow/fast loop of has_cycle and cycle_start
\* (lines 321-325, 336-340): "exit" when the while condition fails, "met"
\* when slow is fast after the move, "go" otherwise.
floyd_step(nx, slow, fast) ==
  IF fast = None \/ nx[fast] = None
  THEN [state |-> "exit", slow |-> slow, fast |-> fast]
  ELSE LET s == nx[slow]
           f == nx[nx[fast]]
       IN  [state |-> IF s = f THEN "met" ELSE "go", slow |-> s, fast |-> f]

\* The slow/fast loop run to its end.
RECURSIVE floyd_loop(_, _, _)
floyd_loop(nx, slow, fast) ==
  LET s == floyd_step(nx, slow, fast) IN
  IF s.state = "go" THEN floyd_loop(nx, s.slow, s.fast) ELSE s

\* has_cycle
has_cycle(L) ==
  R(L, "none", None, floyd_loop(L.nxt, L.head, L.head).state = "met")

\* __iter__ as a generator driven by extend's for loop: the next value of
\* the iteration and the iterator after it.  A Python sequence yields its
\* elements; the list's own generator reads self.head when first resumed
\* and cur.next at every later resumption.
iter_next(L, i) ==
  IF i.kind = "seq"
  THEN IF i.rest = <<>> THEN [done |-> TRUE, value |-> None, it |-> i]
       ELSE [done |-> FALSE, value |-> Head(i.rest),
             it |-> [i EXCEPT !.rest = Tail(i.rest)]]
  ELSE LET cur == IF i.started THEN L.nxt[i.cur] ELSE L.head IN
       IF cur = None THEN [done |-> TRUE, value |-> None, it |-> i]
       ELSE [done |-> FALSE, value |-> L.val[cur],
             it |-> [i EXCEPT !.started = TRUE, !.cur = cur]]

----------------------------------------------------------------------------
\* Inputs of the calls.
Idx == (0 - 1)..(MaxNodes + 1)
Srcs == UNION {[1..k -> Val] : k \in 0..MaxSrc}

NoIter == [kind |-> "none", rest |-> <<>>, started |-> FALSE, cur |-> None]
SeqIter(src) == [kind |-> "seq", rest |-> src, started |-> FALSE, cur |-> None]
SelfIter == [kind |-> "self", rest |-> <<>>, started |-> FALSE, cur |-> None]
NoLocals == [slow |-> None, fast |-> None, ptr1 |-> None, ptr2 |-> None]

Arg(i, isint, v, src, self) ==
  [i |-> i, isint |-> isint, v |-> v, src |-> src, self |-> self]
NoArg == Arg(0, TRUE, None, <<>>, FALSE)
Ret(err, v, b, n) == [err |-> err, val |-> v, flag |-> b, node |-> n]

\* The list's fields after a step.
SetList(L) ==
  /\ head' = L.head
  /\ tail' = L.tail
  /\ size' = L.size
  /\ nxt' = L.nxt
  /\ val' = L.val

\* A whole call of a method: its effect on the list and what it returned
\* or raised.  pre is the list before the call and post the list as the
\* method left it, with the node identities of pre.
Do(name, a, r) ==
  /\ pc = "idle"
  /\ SetList(Normalize(r.L))
  /\ op' = name
  /\ arg' = a
  /\ ret' = Ret(r.err, r.val, r.flag, None)
  /\ pre' = Cur
  /\ post' = r.L
  /\ UNCHANGED <<pc, it, fl>>

Init ==
  /\ head = None
  /\ tail = None
  /\ size = 0
  /\ nxt = [n \in Nodes |-> None]
  /\ val = [n \in Nodes |-> None]
  /\ pc = "idle"
  /\ it = NoIter
  /\ op = "init"
  /\ arg = NoArg
  /\ ret = Ret("none", None, FALSE, None)
  /\ pre = Empty
  /\ post = Empty
  /\ fl = NoLocals

\* SinglyLinkedList(iterable): a new empty list, then extend(iterable)
\* when an iterable is given.
Construct(given, src) ==
  /\ pc = "idle"
  /\ Len(src) <= MaxNodes
  /\ given \/ src = <<>>
  /\ SetList(Empty)
  /\ pc' = IF given THEN "extend" ELSE "idle"
  /\ it' = IF given THEN SeqIter(src) ELSE NoIter
  /\ op' = "construct"
  /\ arg' = Arg(0, TRUE, None, src, FALSE)
  /\ ret' = Ret(IF given THEN "running" ELSE "none", None, FALSE, None)
  /\ pre' = Empty
  /\ post' = Empty
  /\ UNCHANGED fl

Clear == Do("clear", NoArg, clear(Cur))

\* extend(iterable) with a Python sequence: the call, up to the for loop.
Extend(src) ==
  /\ pc = "idle"
  /\ size + Len(src) <= MaxNodes
  /\ pc' = "extend"
  /\ it' = SeqIter(src)
  /\ op' = "extend"
  /\ arg' = Arg(0, TRUE, None, src, FALSE)
  /\ ret' = Ret("running", None, FALSE, None)
  /\ pre' = Cur
  /\ post' = Cur
  /\ UNCHANGED <<head, tail, size, nxt, val, fl>>

\* ll.extend(ll): the iterable is the list itself.
ExtendSelf ==
  /\ pc = "idle"
  /\ pc' = "extend"
  /\ it' = SelfIter
  /\ op' = "extend"
  /\ arg' = Arg(0, TRUE, None, to_list(Cur), TRUE)
  /\ ret' = Ret("running", None, FALSE, None)
  /\ pre' = Cur
  /\ post' = Cur
  /\ UNCHANGED <<head, tail, size, nxt, val, fl>>

\* One iteration of "for x in iterable: self.append(x)".
ExtendStep ==
  /\ pc = "extend"
  /\ HasRoom(Cur)
  /\ LET x == iter_next(Cur, it) IN
     /\ ~x.done
     /\ SetList(append(Cur, x.value).L)
     /\ post' = append(Cur, x.value).L
     /\ it' = x.it
  /\ UNCHANGED <<pc, op, arg, ret, pre, fl>>

\* The iterable is exhausted: extend returns.
ExtendReturn ==
  /\ pc = "extend"
  /\ iter_next(Cur, it).done
  /\ pc' = "idle"
  /\ it' = NoIter
  /\ ret' = Ret("none", None, FALSE, None)
  /\ UNCHANGED <<head, tail, size, nxt, val, op, arg, pre, post, fl>>

PrependCall(v) ==
  /\ HasRoom(Cur)
  /\ Do("prepend", Arg(0, TRUE, v, <<>>, FALSE), prepend(Cur, v))

AppendCall(v) ==
  /\ HasRoom(Cur)
  /\ Do("append", Arg(0, TRUE, v, <<>>, FALSE), append(Cur, v))

Insert(isint, i, v) ==
  /\ HasRoom(Cur) \/ check_index(Cur, isint, i, TRUE) # "none"
  /\ Do("insert", Arg(i, isint, v, <<>>, FALSE), insert(Cur, isint, i, v))

Get(isint, i) == Do("get", Arg(i, isint, None, <<>>, FALSE), get(Cur, isint, i))

Set(isint, i, v) ==
  Do("set", Arg(i, isint, v, <<>>, FALSE), set(Cur, isint, i, v))

PopLeft == Do("pop_left", NoArg, pop_left(Cur))

Pop == Do("pop", NoArg, pop(Cur))

RemoveAt(isint, i) ==
  Do("remove_at", Arg(i, isint, None, <<>>, FALSE), remove_at(Cur, isint, i))

Remove(v) == Do("remove", Arg(0, TRUE, v, <<>>, FALSE), remove(Cur, v))

Reverse == Do("reverse", NoArg, reverse(Cur))

NthFromEnd(n) ==
  Do("nth_from_end", Arg(n, TRUE, None, <<>>, FALSE), nth_from_end(Cur, n))

RemoveDuplicates == Do("remove_duplicates", NoArg, remove_duplicates(Cur))

HasCycle == Do("has_cycle", NoArg, has_cycle(Cur))

\* A non-int index is one input; its integer field is not read.
IdxInputs == {<<TRUE, i>> : i \in Idx} \cup {<<FALSE, 0>>}

Next ==
  \/ \E g \in BOOLEAN, src \in Srcs : Construct(g, src)
  \/ Clear
  \/ \E src \in Srcs : Extend(src)
  \/ ExtendSelf
  \/ ExtendStep
  \/ ExtendReturn
  \/ \E v \in Val : PrependCall(v)
  \/ \E v \in Val : AppendCall(v)
  \/ \E x \in IdxInputs, v \in Val : Insert(x[1], x[2], v)
  \/ \E x \in IdxInputs : Get(x[1], x[2])
  \/ \E x \in IdxInputs, v \in Val : Set(x[1], x[2], v)
  \/ PopLeft
  \/ Pop
  \/ \E x \in IdxInputs : RemoveAt(x[1], x[2])
  \/ \E v \in Val : Remove(v)
  \/ Reverse
  \/ \E n \in Idx : NthFromEnd(n)
  \/ RemoveDuplicates
  \/ HasCycle

Spec == Init /\ [][Next]_vars

----------------------------------------------------------------------------
\* Cycle detection on a chain whose last link was set from outside.

\* extend run to its end on a Python sequence.
RECURSIVE extend(_, _)
extend(L, src) ==
  IF src = <<>> THEN L ELSE extend(append(L, Head(src)).L, Tail(src))

\* from_iterable: cls(it).
from_iterable(src) == extend(Empty, src)

Chains == UNION {[1..k -> Val] : k \in 0..MaxNodes}

\* A list built by from_iterable whose tail.next was then set by the caller
\* to the node at position k - 1 (k = 0: left None, the chain is acyclic).
InitCycle ==
  \E src \in Chains : \E k \in 0..Len(src) :
    LET L0 == from_iterable(src)
        L == IF k = 0 THEN L0
             ELSE [L0 EXCEPT !.nxt[L0.tail] = Walk(L0.nxt, L0.head, k - 1).node]
    IN  /\ head = L.head
        /\ tail = L.tail
        /\ size = L.size
        /\ nxt = L.nxt
        /\ val = L.val
        /\ pc = "idle"
        /\ it = NoIter
        /\ op = "init"
        /\ arg = NoArg
        /\ ret = Ret("none", None, FALSE, None)
        /\ pre = L
        /\ post = L
        /\ fl = NoLocals

\* A call of has_cycle or cycle_start, up to its first loop (lines 319-320,
\* 332-333): slow = fast = self.head.
StartFloyd(name) ==
  /\ pc = "idle"
  /\ pc' = name
  /\ fl' = [NoLocals EXCEPT !.slow = head, !.fast = head]
  /\ op' = name
  /\ arg' = NoArg
  /\ ret' = Ret("running", None, FALSE, None)
  /\ pre' = Cur
  /\ post' = Cur
  /\ UNCHANGED <<head, tail, size, nxt, val, it>>

\* The return of a call in progress.
Return(r) ==
  /\ pc' = "idle"
  /\ fl' = NoLocals
  /\ ret' = r

HasCycleCall == StartFloyd("has_cycle")

\* has_cycle, lines 321-326: one iteration of the loop, or the return.
HasCycleStep ==
  /\ pc = "has_cycle"
  /\ LET s == floyd_step(nxt, fl.slow, fl.fast) IN
     IF s.state = "go"
     THEN /\ fl' = [fl EXCEPT !.slow = s.slow, !.fast = s.fast]
          /\ UNCHANGED <<pc, ret>>
     ELSE Return(Ret("none", None, s.state = "met", None))
  /\ UNCHANGED <<head, tail, size, nxt, val, it, op, arg, pre, post>>

CycleStartCall == StartFloyd("cycle_start")

\* cycle_start, lines 336-346: one iteration of the first loop; its else
\* clause returns None, its break goes on to the second loop with ptr1 at
\* head and ptr2 at the meeting point.
CycleStartFind ==
  /\ pc = "cycle_start"
  /\ LET s == floyd_step(nxt, fl.slow, fl.fast) IN
     IF s.state = "go"
     THEN /\ fl' = [fl EXCEPT !.slow = s.slow, !.fast = s.fast]
          /\ UNCHANGED <<pc, ret>>
     ELSE IF s.state = "exit"
     THEN Return(Ret("none", None, FALSE, None))
     ELSE /\ pc' = "cycle_entry"
          /\ fl' = [slow |-> s.slow, fast |-> s.fast,
                    ptr1 |-> head, ptr2 |-> s.slow]
          /\ UNCHANGED ret
  /\ UNCHANGED <<head, tail, size, nxt, val, it, op, arg, pre, post>>

\* cycle_start, lines 347-351: one iteration of the second loop, or the
\* return of ptr1.
CycleStartEntry ==
  /\ pc = "cycle_entry"
  /\ IF fl.ptr1 = fl.ptr2
     THEN Return(Ret("none", None, FALSE, fl.ptr1))
     ELSE IF fl.ptr1 = None \/ fl.ptr2 = None
     THEN Return(Ret("AssertionError", None, FALSE, None))
     ELSE /\ fl' = [fl EXCEPT !.ptr1 = nxt[fl.ptr1], !.ptr2 = nxt[fl.ptr2]]
          /\ UNCHANGED <<pc, ret>>
  /\ UNCHANGED <<head, tail, size, nxt, val, it, op, arg, pre, post>>

NextCycle ==
  \/ HasCycleCall
  \/ HasCycleStep
  \/ CycleStartCall
  \/ CycleStartFind
  \/ CycleStartEntry

\* One thread runs a call to its end: a call in progress keeps stepping.
SpecCycle == InitCycle /\ [][NextCycle]_vars /\ WF_vars(NextCycle)

----------------------------------------------------------------------------
\* Properties.

Rev(s) == [i \in 1..Len(s) |-> s[Len(s) + 1 - i]]

\* The nodes of L from head, in order.
NodesOf(L) == Chain(L.nxt, L.head, <<>>)

\* The positions of s holding the first occurrence of their value.
FirstIdx(s) == {i \in 1..Len(s) : \A j \in 1..(i - 1) : s[j] # s[i]}

\* The elements of s at the positions of idx, in order.
RECURSIVE Pick(_, _, _)
Pick(s, idx, i) ==
  IF i > Len(s) THEN <<>>
  ELSE (IF i \in idx THEN <<s[i]>> ELSE <<>>) \o Pick(s, idx, i + 1)

Max(S) == CHOOSE x \in S : \A y \in S : y <= x

Returned == pc = "idle"

\* C1: the list is empty in all three senses at once: _size is 0 iff head
\* is None iff tail is None, after every call (failed ones included) and
\* during extend; pop_left, pop, remove_at(0) and a successful remove on a
\* one-element list leave head None, tail None and _size 0.
C1_EmptyIff ==
  /\ (size = 0) <=> (head = None)
  /\ (head = None) <=> (tail = None)
  /\ (post.size = 0) <=> (post.head = None)
  /\ (post.head = None) <=> (post.tail = None)
  /\ ( /\ pre.size = 1
       /\ \/ op \in {"pop_left", "pop"}
          \/ op = "remove_at" /\ arg.isint /\ arg.i = 0
          \/ op = "remove" /\ arg.v = pre.val[pre.head] )
     => /\ ret.err = "none"
        /\ post.head = None /\ post.tail = None /\ post.size = 0
        /\ head = None /\ tail = None /\ size = 0

C1_Witness ==
  /\ op = "remove" /\ ret.flag /\ pre.size = 1
  /\ head = None /\ tail = None /\ size = 0

\* The tail of L is the node size - 1 links after head, its next is None,
\* and exactly size nodes are reachable from head.
TailIsLast(L) ==
  /\ Len(NodesOf(L)) = L.size
  /\ L.size > 0 =>
       /\ L.tail # None
       /\ Walk(L.nxt, L.head, L.size - 1).node = L.tail
       /\ L.nxt[L.tail] = None

\* C2: in every state of a list used through its methods, tail is the node
\* reached from head by _size - 1 next links, tail.next is None and _size
\* nodes are reachable from head.
C2_TailIsLast == TailIsLast(Cur) /\ TailIsLast(post)

C2_Witness ==
  /\ op = "remove_at" /\ ret.err = "none"
  /\ pre.size >= 2 /\ arg.i = pre.size - 1
  /\ post.tail # pre.tail

\* The calls the claim names as failing, by their arguments and the list
\* before them.
FailingCall ==
  \/ op \in {"get", "set", "remove_at"} /\ arg.isint
       /\ (arg.i < 0 \/ arg.i >= pre.size)
  \/ op = "insert" /\ arg.isint /\ (arg.i < 0 \/ arg.i > pre.size)
  \/ op \in {"pop_left", "pop"} /\ pre.size = 0
  \/ op = "nth_from_end" /\ (arg.i < 1 \/ arg.i > pre.size)

\* C3: a failing call raises (IndexError, or ValueError for
\* nth_from_end(n < 1)) and leaves head, tail, _size, every next link and
\* every value as they were; and no call that raises changes the list.
C3_FailedNoop ==
  /\ FailingCall =>
       /\ ret.err \in {"IndexError", "ValueError"}
       /\ post = pre
       /\ Cur = pre
  /\ (Returned /\ ret.err # "none") => (post = pre /\ Cur = pre)

C3_Witness ==
  /\ op = "set" /\ arg.isint /\ arg.i < 0 /\ pre.size >= 2
  /\ ret.err = "IndexError" /\ Cur = pre

\* C4: has_cycle() is False in every state reached through the methods,
\* and every walk from head ends at a node whose next is None.
C4_NoCycle ==
  /\ ~has_cycle(Cur).flag
  /\ ~has_cycle(post).flag
  /\ op = "has_cycle" => ~ret.flag
  /\ \A L \in {Cur, post} :
       /\ \A n \in Live(L) : L.nxt[n] # n
       /\ NodesOf(L) # <<>> => L.nxt[NodesOf(L)[Len(NodesOf(L))]] = None

C4_Witness ==
  /\ op = "has_cycle" /\ ~ret.flag /\ size >= 3
  /\ pre = Cur

\* C5: after reverse() the elements are those before in reverse order,
\* head is the old last node, tail is the old head node, _size is the
\* same, and a second reverse() gives the original sequence back.
C5_Reverse ==
  op = "reverse" =>
    LET s == to_list(pre)
        ns == NodesOf(pre)
    IN  /\ ret.err = "none"
        /\ to_list(post) = Rev(s)
        /\ to_list(Cur) = Rev(s)
        /\ post.head = IF ns = <<>> THEN None ELSE ns[Len(ns)]
        /\ post.tail = pre.head
        /\ post.size = pre.size
        /\ to_list(reverse(post).L) = s
        /\ to_list(reverse(Cur).L) = s
        /\ reverse(Cur).L.size = pre.size

C5_Witness ==
  /\ op = "reverse" /\ pre.size >= 3
  /\ to_list(pre) # to_list(Cur)
  /\ to_list(reverse(Cur).L) = to_list(pre)

\* C6: after remove_duplicates() the elements are the first occurrences of
\* the values of the list before, in their order, no two equal; _size is
\* the number of distinct values; tail is the last node kept.
C6_RemoveDuplicates ==
  op = "remove_duplicates" =>
    LET s == to_list(pre)
        ns == NodesOf(pre)
        t == to_list(post)
    IN  /\ ret.err = "none"
        /\ t = Pick(s, FirstIdx(s), 1)
        /\ to_list(Cur) = t
        /\ \A i, j \in 1..Len(t) : i # j => t[i] # t[j]
        /\ post.size = Cardinality({s[i] : i \in 1..Len(s)})
        /\ NodesOf(post) = Pick(ns, FirstIdx(s), 1)
        /\ post.tail = IF s = <<>> THEN None ELSE ns[Max(FirstIdx(s))]

C6_Witness ==
  /\ op = "remove_duplicates" /\ post.size >= 2
  /\ post.tail # pre.tail

\* C7: insert(i, v) with 0 <= i <= size returns, get(i) then returns v,
\* the elements are those before i, then v, then those from i on, and
\* _size is one more.
C7_Insert ==
  (op = "insert" /\ arg.isint /\ 0 <= arg.i /\ arg.i <= pre.size) =>
    LET s == to_list(pre)
        t == SubSeq(s, 1, arg.i) \o <<arg.v>> \o SubSeq(s, arg.i + 1, Len(s))
    IN  /\ ret.err = "none"
        /\ get(post, TRUE, arg.i).err = "none"
        /\ get(post, TRUE, arg.i).val = arg.v
        /\ get(Cur, TRUE, arg.i).val = arg.v
        /\ to_list(post) = t
        /\ to_list(Cur) = t
        /\ post.size = pre.size + 1

C7_Witness ==
  /\ op = "insert" /\ arg.isint /\ 0 < arg.i /\ arg.i < pre.size
  /\ ret.err = "none" /\ get(Cur, TRUE, arg.i).val = arg.v
  /\ to_list(pre)[arg.i + 1] # arg.v

\* C8: nth_from_end(n) with 1 <= n <= size returns the element at index
\* size - n and leaves the list alone; n < 1 raises ValueError and
\* n > size raises IndexError.
C8_NthFromEnd ==
  op = "nth_from_end" =>
    LET c == pre.size
        n == arg.i
    IN  /\ (1 <= n /\ n <= c) =>
              /\ ret.err = "none"
              /\ ret.val = to_list(pre)[c - n + 1]
        /\ n < 1 => ret.err = "ValueError"
        /\ (n >= 1 /\ n > c) => ret.err = "IndexError"
        /\ post = pre
        /\ Cur = pre

C8_Witness ==
  /\ op = "nth_from_end" /\ ret.err = "none"
  /\ pre.size >= 3 /\ arg.i = 2
  /\ ret.val = to_list(pre)[pre.size - 1]
  /\ to_list(pre)[pre.size - 1] # to_list(pre)[pre.size]

\* The entry of the cycle of a chain whose tail.next was set: the node
\* tail.next refers to (None on an acyclic chain and on the empty list).
CycleEntry == IF size = 0 THEN None ELSE nxt[tail]

CycleResults ==
  /\ nxt = pre.nxt /\ val = pre.val /\ head = pre.head
  /\ (Returned /\ op = "has_cycle") =>
       /\ ret.err = "none"
       /\ ret.flag = (CycleEntry # None)
  /\ (Returned /\ op = "cycle_start") =>
       /\ ret.err = "none"
       /\ ret.node = CycleEntry

\* C9: on a chain whose last node's next was set to the node at position
\* k, has_cycle() returns True and cycle_start() returns that node; on an
\* acyclic chain they return False and None; both calls end, and neither
\* changes a link.
C9_CycleDetection == [](CycleResults) /\ (~Returned ~> Returned)

C9_Witness ==
  /\ Returned /\ op = "cycle_start" /\ size >= 3
  /\ nxt[tail] \notin {None, head, tail}
  /\ ret.node = nxt[tail]

\* C10: extend appends exactly the k elements its source held when it was
\* called, in order, and ends: never more than k nodes are added, and on
\* return the elements are the old ones followed by the source's.
C10_ExtendBounded ==
  op = "extend" =>
    /\ size <= pre.size + Len(arg.src)
    /\ Returned =>
         /\ size = pre.size + Len(arg.src)
         /\ to_list(Cur) = to_list(pre) \o arg.src
====
